---- MODULE Spec2Model ----
(***************************************************************************)
(* Model of the COVID-19 statistics pipeline of src/data_prep.py           *)
(* (class DataProcessor).  Tables are pandas DataFrames: an index (a       *)
(* sequence of level names and one label tuple per row), an ordered list   *)
(* of column names and, per row, one cell per column.  Cells are floats    *)
(* (exact non-negative rationals, NaN, +inf), strings or dates.            *)
(*                                                                         *)
(* Modelling assumptions, stated once:                                     *)
(*  - counts and populations are non-negative (the data model of the       *)
(*    pipeline); floats are exact rationals, so rounding is not modelled;  *)
(*  - pandas semantics are those of the 2.x line without copy-on-write,    *)
(*    for which the code was written (DataFrame._append, group_keys=True): *)
(*    the chained assignment df['Rt'].iloc[0] = ... writes through;        *)
(*  - a raw table of which no row survives the two joins is not an input   *)
(*    of the model.                                                        *)
(***************************************************************************)
EXTENDS Integers, Sequences, FiniteSets, TLC

VARIABLES
    pc,                  \* position inside DataProcessor.__init__ / main
    files,               \* the three CSV files read by import_data
    self_df_countries,   \* self.df_countries
    self_regions,        \* self.regions
    self_population,     \* self.population
    df_countries,        \* local df_countries of __init__
    df_countries_norm,   \* local df_countries_norm of __init__
    df_regions,          \* local df_regions of __init__
    df_regions_norm,     \* local df_regions_norm of __init__
    self_df_absolute,    \* self.df_absolute
    self_df_normalized,  \* self.df_normalized
    fn,                  \* method exercised on its own (SpecFn)
    arg,                 \* its argument(s) as passed by the caller
    ret                  \* the caller's view after the call

vars == <<pc, files, self_df_countries, self_regions, self_population,
          df_countries, df_countries_norm, df_regions, df_regions_norm,
          self_df_absolute, self_df_normalized, fn, arg, ret>>

-----------------------------------------------------------------------------
(* Bounds of the model *)

MaxRows == 3        \* rows of the raw daily-cases table
MaxLen == 4         \* length of a new_cases sequence given to calculate_rt
MaxCases == 2       \* largest count in a sequence given to a single method

(* Program constant *)
POPULATION_NORMALIZER == 1000000

-----------------------------------------------------------------------------
(* Cells: float64 / object values of a DataFrame *)

None == [k |-> "None"]

NaN == [k |-> "nan", s |-> "", n |-> 0, d |-> 0]

Inf == [k |-> "inf", s |-> "", n |-> 1, d |-> 0]

Str(x) == [k |-> "str", s |-> x, n |-> 0, d |-> 1]

Date(day) == [k |-> "date", s |-> "", n |-> day, d |-> 1]

RECURSIVE Gcd(_, _)
Gcd(a, b) == IF b = 0 THEN a ELSE Gcd(b, a % b)

\* the float a/b for integers a >= 0, b > 0, in lowest terms
Num(a, b) ==
    LET g == Gcd(a, b)
    IN  [k |-> "num", s |-> "", n |-> a \div g, d |-> b \div g]

Zero == Num(0, 1)

IsNum(c) == c.k = "num"

\* IEEE division of non-negative floats: x/0 is inf, 0/0 is NaN
Div(a, b) ==
    IF a.k = "nan" \/ b.k = "nan" THEN NaN
    ELSE IF b.k = "inf" THEN (IF a.k = "inf" THEN NaN ELSE Zero)
    ELSE IF a.k = "inf" THEN Inf
    ELSE IF b.n = 0 THEN (IF a.n = 0 THEN NaN ELSE Inf)
    ELSE Num(a.n * b.d, a.d * b.n)

Mul(a, b) ==
    IF a.k = "nan" \/ b.k = "nan" THEN NaN
    ELSE IF a.k = "inf" \/ b.k = "inf"
         THEN (IF (IsNum(a) /\ a.n = 0) \/ (IsNum(b) /\ b.n = 0) THEN NaN ELSE Inf)
    ELSE Num(a.n * b.n, a.d * b.d)

Add(a, b) ==
    IF a.k = "nan" \/ b.k = "nan" THEN NaN
    ELSE IF a.k = "inf" \/ b.k = "inf" THEN Inf
    ELSE Num(a.n * b.d + b.n * a.d, a.d * b.d)

\* Series.fillna(0) on one cell
FillNa0(c) == IF c.k = "nan" THEN Zero ELSE c

-----------------------------------------------------------------------------
(* DataFrames *)

Range(sq) == {sq[i] : i \in DOMAIN sq}

RECURSIVE Flatten(_)
Flatten(ss) == IF ss = <<>> THEN <<>> ELSE Head(ss) \o Flatten(Tail(ss))

SelectIdx(sq, Keep(_)) ==
    LET RECURSIVE Go(_)
        Go(i) == IF i > Len(sq) THEN <<>>
                 ELSE (IF Keep(i) THEN <<sq[i]>> ELSE <<>>) \o Go(i + 1)
    IN  Go(1)

IndexOf(sq, x) == CHOOSE i \in DOMAIN sq : sq[i] = x

Frame(index, columns, rows) == [index |-> index, columns |-> columns, rows |-> rows]

Row(ix, v) == [ix |-> ix, v |-> v]

\* the default RangeIndex 0..n-1 given to a sequence of cell maps
RangeIndexed(columns, vs) ==
    Frame(<<"">>, columns, [i \in DOMAIN vs |-> Row(<<Num(i - 1, 1)>>, vs[i])])

\* df[col] as a sequence
Col(df, col) == [i \in DOMAIN df.rows |-> df.rows[i].v[col]]

\* df[col] = vals : replaces the column, or appends it as the last column
SetItem(df, col, vals) ==
    Frame(df.index,
          IF col \in Range(df.columns) THEN df.columns ELSE Append(df.columns, col),
          [i \in DOMAIN df.rows |->
              Row(df.rows[i].ix,
                  [c \in Range(df.columns) \cup {col} |->
                      IF c = col THEN vals[i] ELSE df.rows[i].v[c]])])

\* df[cols] : projection on a list of columns
Project(df, cols) ==
    Frame(df.index, cols,
          [i \in DOMAIN df.rows |->
              Row(df.rows[i].ix, [c \in Range(cols) |-> df.rows[i].v[c]])])

\* Drop that removes nothing
Drop_none(df, cols) == df

\* df.drop(columns=cols)
Drop(df, cols) ==
    Project(df, SelectSeq(df.columns, LAMBDA c : c \notin cols))

\* df.fillna(0)
FillNaFrame(df) ==
    Frame(df.index, df.columns,
          [i \in DOMAIN df.rows |->
              Row(df.rows[i].ix,
                  [c \in Range(df.columns) |-> FillNa0(df.rows[i].v[c])])])

\* pd.merge(left, right, left_on=.., right_on=..): inner join that keeps the
\* order of the left rows; the result has a fresh RangeIndex
Merge(left, right, left_on, right_on) ==
    LET Matches(l) ==
            SelectSeq([j \in DOMAIN right.rows |->
                          [c \in Range(left.columns) \cup Range(right.columns) |->
                              IF c \in Range(left.columns) THEN l.v[c]
                              ELSE right.rows[j].v[c]]],
                      LAMBDA m : m[left_on] = m[right_on] /\ m[left_on].k /= "nan")
    IN  RangeIndexed(left.columns \o right.columns,
                     Flatten([i \in DOMAIN left.rows |-> Matches(left.rows[i])]))

\* the labels of index level or column `name` of row r (groupby resolves a key
\* to a column, else to an index level of that name)
KeyOf(df, r, name) ==
    IF name \in Range(df.columns) THEN r.v[name] ELSE r.ix[IndexOf(df.index, name)]

\* lexicographic order of the entity, region and code strings of the model
SortedNames == <<"EURO", "Germany", "India", "Kosovo", "SEARO", "Switzerland">>

CellRank(c) == IF c.k = "str" THEN IndexOf(SortedNames, c.s) ELSE c.n

RECURSIVE KeyLeq(_, _)
KeyLeq(a, b) ==
    IF a = <<>> THEN TRUE
    ELSE IF CellRank(Head(a)) /= CellRank(Head(b))
         THEN CellRank(Head(a)) < CellRank(Head(b))
    ELSE KeyLeq(Tail(a), Tail(b))

\* the sorted distinct group keys of a groupby (sort=True)
RECURSIVE SortKeys(_)
SortKeys(S) ==
    IF S = {} THEN <<>>
    ELSE LET m == CHOOSE x \in S : \A y \in S : KeyLeq(x, y)
         IN  <<m>> \o SortKeys(S \ {m})

GroupKey(df, r, by) == [j \in DOMAIN by |-> KeyOf(df, r, by[j])]

GroupKeys(df, by) == SortKeys({GroupKey(df, df.rows[i], by) : i \in DOMAIN df.rows})

\* the rows of one group, in the order they have in df
Group(df, by, key) ==
    Frame(df.index, df.columns,
          SelectSeq(df.rows, LAMBDA r : GroupKey(df, r, by) = key))

\* Series.sum() of a group: NaN is skipped
RECURSIVE Sum(_)
Sum(cells) == IF cells = <<>> THEN Zero ELSE Add(FillNa0(Head(cells)), Sum(Tail(cells)))

\* Series.shift(1) and Series.shift(-1)
Shift(sq) == [i \in DOMAIN sq |-> IF i = 1 THEN NaN ELSE sq[i - 1]]

ShiftBack(sq) == [i \in DOMAIN sq |-> IF i = Len(sq) THEN NaN ELSE sq[i + 1]]

-----------------------------------------------------------------------------
(* DataProcessor.preprocess_data *)

DateStrings == <<"2020-01-03", "2020-01-04">>

\* pd.to_datetime on one cell of the Date_reported column
to_datetime(c) == Date(IndexOf(DateStrings, c.s))

\* lines 58-61: the mean of the three annual figures
MeanPopulation(population) ==
    [i \in DOMAIN population.rows |->
        Div(Add(Add(population.rows[i].v["2019 [YR2019]"],
                    population.rows[i].v["2020 [YR2020]"]),
                population.rows[i].v["2021 [YR2021]"]),
            Num(3, 1))]

\* lines 67-68
FillMissing(df) == FillNaFrame(df)

\* the method: self.df_countries and self.population after it
preprocess_data(countries, regions, population) ==
    LET d1 == SetItem(countries, "Date_reported",
                      [i \in DOMAIN countries.rows |->
                          to_datetime(countries.rows[i].v["Date_reported"])])
        d2 == Merge(d1, Project(regions, <<"alpha-2", "alpha-3">>),
                    "Country_code", "alpha-2")
        p1 == SetItem(population, "population", MeanPopulation(population))
        d3 == Merge(d2, Project(p1, <<"Country Code", "population">>),
                    "alpha-3", "Country Code")
        d4 == FillMissing(d3)
        d5 == Drop(d4, {"alpha-2", "alpha-3", "Country Code"})
    IN  [df_countries |-> d5, population |-> p1]

-----------------------------------------------------------------------------
(* DataProcessor.calculate_rt *)

\* line 81: New_cases / New_cases.shift(1)
Ratio(nc) == [i \in DOMAIN nc |-> Div(nc[i], Shift(nc)[i])]

\* InfFill filling from the previous record (Rt.shift(1)) instead of the next
InfFill_prev(rt) == [i \in DOMAIN rt |-> IF rt[i] = Inf THEN Shift(rt)[i] ELSE rt[i]]

\* line 86: where Rt is +inf, take Rt.shift(-1) of the column as it was
InfFill(rt) == [i \in DOMAIN rt |-> IF rt[i] = Inf THEN ShiftBack(rt)[i] ELSE rt[i]]

\* line 88: New_cases.iloc[0] != 0 (raises IndexError on an empty group)
FirstNonZero(nc) == nc[1] /= Zero

\* FirstRecord whose chained assignment is lost on a temporary copy
FirstRecord_lost(rt) == rt

\* line 89: Rt.iloc[0] = Rt.iloc[1]
FirstRecord(rt) == [rt EXCEPT ![1] = rt[2]]

\* line 92: Rt.fillna(0)
FillRest(rt) == [i \in DOMAIN rt |-> FillNa0(rt[i])]

\* the method.  df_covid is the argument object as the method leaves it (it
\* is also what the method returns); raised: an IndexError left the method
calculate_rt(df_covid) ==
    LET nc  == Col(df_covid, "New_cases")
        rt2 == InfFill(Ratio(nc))
    IN  IF Len(nc) = 0
        THEN [raised |-> TRUE, df_covid |-> SetItem(df_covid, "Rt", rt2)]
        ELSE IF FirstNonZero(nc)
        THEN IF Len(nc) < 2
             THEN [raised |-> TRUE, df_covid |-> SetItem(df_covid, "Rt", rt2)]
             ELSE [raised |-> FALSE,
                   df_covid |-> SetItem(df_covid, "Rt", FillRest(FirstRecord(rt2)))]
        ELSE [raised |-> FALSE, df_covid |-> SetItem(df_covid, "Rt", FillRest(rt2))]

-----------------------------------------------------------------------------
(* DataProcessor.calculate_deaths_per_cases *)

\* line 100
DeathsPerCases(df_covid) ==
    [i \in DOMAIN df_covid.rows |->
        Div(df_covid.rows[i].v["Cumulative_deaths"],
            df_covid.rows[i].v["Cumulative_cases"])]

\* the method: the argument object as it leaves it (also its return value)
calculate_deaths_per_cases(df_covid) ==
    LET d1 == SetItem(df_covid, "deaths_per_cases", DeathsPerCases(df_covid))
    IN  SetItem(d1, "deaths_per_cases", FillRest(Col(d1, "deaths_per_cases")))

-----------------------------------------------------------------------------
(* DataProcessor.normalize *)

cols_normalize == <<"New_cases", "Cumulative_cases", "New_deaths", "Cumulative_deaths">>

\* Rescale that divides by the population but leaves out the scale factor
Rescale_per_capita(df) ==
    Frame(df.index, df.columns,
          [i \in DOMAIN df.rows |->
              Row(df.rows[i].ix,
                  [c \in Range(df.columns) |->
                      IF c \in Range(cols_normalize)
                      THEN Div(df.rows[i].v[c], df.rows[i].v["population"])
                      ELSE df.rows[i].v[c]])])

\* lines 129-130: value / population * POPULATION_NORMALIZER on the four columns
Rescale(df) ==
    Frame(df.index, df.columns,
          [i \in DOMAIN df.rows |->
              Row(df.rows[i].ix,
                  [c \in Range(df.columns) |->
                      IF c \in Range(cols_normalize)
                      THEN Mul(Div(df.rows[i].v[c], df.rows[i].v["population"]),
                               Num(POPULATION_NORMALIZER, 1))
                      ELSE df.rows[i].v[c]])])

\* normalize without the copy of line 126: it rescales the table it was given
normalize_inplace(df_covid) == [df_covid |-> Rescale(df_covid), df_norm |-> Rescale(df_covid)]

\* the method: df_covid is the argument object after the call (line 126 works
\* on a copy), df_norm the returned table
normalize(df_covid) == [df_covid |-> df_covid, df_norm |-> Rescale(df_covid)]

-----------------------------------------------------------------------------
(* DataProcessor.calc_stats *)

\* line 115: groupby(for_whom, group_keys=True).apply(self.calculate_rt).
\* Groups are taken in key order, each with its rows in the order of df; the
\* group key is prepended to the index of the result.
GroupByApply(df, for_whom) ==
    LET keys    == GroupKeys(df, <<for_whom>>)
        results == [j \in DOMAIN keys |-> calculate_rt(Group(df, <<for_whom>>, keys[j]))]
    IN  [raised |-> \E j \in DOMAIN keys : results[j].raised,
         df |-> Frame(<<for_whom>> \o df.index,
                      IF keys = <<>> THEN df.columns ELSE results[1].df_covid.columns,
                      Flatten([j \in DOMAIN keys |->
                                  [i \in DOMAIN results[j].df_covid.rows |->
                                      Row(keys[j] \o results[j].df_covid.rows[i].ix,
                                          results[j].df_covid.rows[i].v)]]))]

\* the method.  caller: the argument object as the method leaves it;
\* df_covid, df_norm: the two returned tables (None when it raised)
calc_stats(df_covid, for_whom) ==
    LET d1 == calculate_deaths_per_cases(df_covid)
        d2 == SetItem(d1, "Rt", [i \in DOMAIN d1.rows |-> Zero])
        g  == GroupByApply(d2, for_whom)
        nm == normalize(g.df)
    IN  IF g.raised
        THEN [raised |-> TRUE, caller |-> d2, df_covid |-> None, df_norm |-> None]
        ELSE [raised |-> FALSE, caller |-> d2,
              df_covid |-> nm.df_covid, df_norm |-> nm.df_norm]

-----------------------------------------------------------------------------
(* DataProcessor.create_regional_df *)

columns_to_sum ==
    <<"New_cases", "Cumulative_cases", "New_deaths", "Cumulative_deaths", "population">>

\* GroupBySum that aggregates with first() instead of sum()
GroupBySum_first(df, by, cols) ==
    LET keys == GroupKeys(df, by)
    IN  Frame(by, cols,
              [j \in DOMAIN keys |->
                  Row(keys[j],
                      [c \in Range(cols) |-> Head(Col(Group(df, by, keys[j]), c))])])

\* lines 141-142: groupby(['WHO_region', 'Date_reported'])[columns_to_sum].sum()
GroupBySum(df, by, cols) ==
    LET keys == GroupKeys(df, by)
    IN  Frame(by, cols,
              [j \in DOMAIN keys |->
                  Row(keys[j],
                      [c \in Range(cols) |-> Sum(Col(Group(df, by, keys[j]), c))])])

create_regional_df(countries) ==
    GroupBySum(countries, <<"WHO_region", "Date_reported">>, columns_to_sum)

-----------------------------------------------------------------------------
(* DataProcessor.append_dataframes *)

\* df.set_index(keys): the key columns become the index
set_index(df, keys) ==
    LET rest == SelectSeq(df.columns, LAMBDA c : c \notin Range(keys))
    IN  Frame(keys, rest,
              [i \in DOMAIN df.rows |->
                  Row([j \in DOMAIN keys |-> df.rows[i].v[keys[j]]],
                      [c \in Range(rest) |-> df.rows[i].v[c]])])

\* df.reset_index(level=[pos - 1]): that index level becomes the first column
reset_index_level(df, pos) ==
    LET name == df.index[pos]
        Without(sq) == SelectIdx(sq, LAMBDA j : j /= pos)
    IN  Frame(Without(df.index), <<name>> \o df.columns,
              [i \in DOMAIN df.rows |->
                  Row(Without(df.rows[i].ix),
                      [c \in Range(df.columns) \cup {name} |->
                          IF c = name THEN df.rows[i].ix[pos] ELSE df.rows[i].v[c]])])

\* the column name reset_index gives index level j
LevelName(df, j) ==
    IF df.index[j] /= "" THEN df.index[j]
    ELSE IF Len(df.index) = 1 THEN "index"
    ELSE IF j = 1 THEN "level_0" ELSE IF j = 2 THEN "level_1" ELSE "level_2"

\* df.reset_index(): every index level becomes a column, in front
reset_index(df) ==
    LET names == [j \in DOMAIN df.index |-> LevelName(df, j)]
    IN  RangeIndexed(names \o df.columns,
                     [i \in DOMAIN df.rows |->
                         [c \in Range(names) \cup Range(df.columns) |->
                             IF c \in Range(names) THEN df.rows[i].ix[IndexOf(names, c)]
                             ELSE df.rows[i].v[c]]])

\* a._append(b): rows of a then rows of b, over the union of the columns (NaN
\* where a table lacks a column); an index level keeps its name only where
\* both tables agree on it
append(a, b) ==
    LET cols == a.columns \o SelectSeq(b.columns, LAMBDA c : c \notin Range(a.columns))
        Widen(df) == [i \in DOMAIN df.rows |->
                         Row(df.rows[i].ix,
                             [c \in Range(cols) |->
                                 IF c \in Range(df.columns) THEN df.rows[i].v[c] ELSE NaN])]
    IN  Frame([j \in DOMAIN a.index |-> IF a.index[j] = b.index[j] THEN a.index[j] ELSE ""],
              cols, Widen(a) \o Widen(b))

\* df.rename(columns={old: new})
rename(df, old, new) ==
    Frame(df.index,
          [j \in DOMAIN df.columns |-> IF df.columns[j] = old THEN new ELSE df.columns[j]],
          [i \in DOMAIN df.rows |->
              Row(df.rows[i].ix,
                  [c \in (Range(df.columns) \ {old}) \cup {new} |->
                      IF c = new THEN df.rows[i].v[old] ELSE df.rows[i].v[c]])])

append_dataframes(countries, regions) ==
    LET c1 == set_index(countries, <<"Country", "Date_reported">>)
        r1 == reset_index_level(regions, 2)
        a  == append(c1, r1)
        f  == reset_index(a)
    IN  rename(f, f.columns[1], "Country_region")

-----------------------------------------------------------------------------
(* Inputs: the contents of the three CSV files *)

SeqsUpTo(S, n) == UNION {[1..m -> S] : m \in 1..n}

raw_columns ==
    <<"Date_reported", "Country_code", "Country", "WHO_region",
      "New_cases", "Cumulative_cases", "New_deaths", "Cumulative_deaths">>

\* the countries of the daily-cases file: code, name and WHO region.  Kosovo
\* (XK) has no entry in the crosswalk.
Catalog ==
    { [code |-> "CH", name |-> "Switzerland", region |-> "EURO"],
      [code |-> "DE", name |-> "Germany",     region |-> "EURO"],
      [code |-> "IN", name |-> "India",       region |-> "SEARO"],
      [code |-> "XK", name |-> "Kosovo",      region |-> "EURO"] }

\* one line of the daily-cases file
RawRow(c, date, nc, cc, nd, cd) ==
    [Date_reported |-> Str(date), Country_code |-> Str(c.code),
     Country |-> Str(c.name), WHO_region |-> Str(c.region),
     New_cases |-> nc, Cumulative_cases |-> cc,
     New_deaths |-> nd, Cumulative_deaths |-> cd]

\* the count fields a line may carry: a day without new cases (its new deaths
\* left empty in the file) or a day with some.  A line of Kosovo never reaches
\* a statistic, so one line stands for them.
RawRows ==
    {RawRow(c, date, Zero, Num(2, 1), NaN, Num(1, 1)) :
        c \in {x \in Catalog : x.code /= "XK"}, date \in Range(DateStrings)}
    \cup
    {RawRow(c, date, Num(2, 1), Num(3, 1), Num(1, 1), Num(1, 1)) :
        c \in {x \in Catalog : x.code /= "XK"}, date \in Range(DateStrings)}
    \cup
    {RawRow(c, DateStrings[1], Num(2, 1), Num(3, 1), Num(1, 1), Num(1, 1)) :
        c \in {x \in Catalog : x.code = "XK"}}

\* no two lines of a file report the same country and date
DistinctKeys(sq) ==
    \A i, j \in DOMAIN sq :
        i /= j => <<sq[i].Country, sq[i].Date_reported>> /= <<sq[j].Country, sq[j].Date_reported>>

RegionsRow(name, a2, a3) ==
    [c \in {"name", "alpha-2", "alpha-3"} |->
        IF c = "name" THEN Str(name) ELSE IF c = "alpha-2" THEN Str(a2) ELSE Str(a3)]

\* region.csv
RegionsFile ==
    RangeIndexed(<<"name", "alpha-2", "alpha-3">>,
        << RegionsRow("Switzerland", "CH", "CHE"),
           RegionsRow("Germany", "DE", "DEU"),
           RegionsRow("India", "IN", "IND") >>)

PopulationRow(code, y19, y20, y21) ==
    [c \in {"Country Code", "2019 [YR2019]", "2020 [YR2020]", "2021 [YR2021]"} |->
        IF c = "Country Code" THEN Str(code)
        ELSE IF c = "2019 [YR2019]" THEN y19
        ELSE IF c = "2020 [YR2020]" THEN y20 ELSE y21]

\* populations.csv; the 2019 figure of India is given or left empty
PopulationFile(ind19) ==
    RangeIndexed(<<"Country Code", "2019 [YR2019]", "2020 [YR2020]", "2021 [YR2021]">>,
        << PopulationRow("CHE", Num(1000000, 1), Num(1000000, 1), Num(1000000, 1)),
           PopulationRow("DEU", Num(2, 1), Num(3, 1), Num(4, 1)),
           PopulationRow("IND", ind19, Num(4, 1), Num(6, 1)) >>)

Files ==
    { [cases |-> RangeIndexed(raw_columns, sq),
       regions |-> RegionsFile,
       population |-> PopulationFile(ind19)] :
        sq \in {s \in SeqsUpTo(RawRows, MaxRows) :
                   /\ DistinctKeys(s)
                   /\ \E i \in DOMAIN s : s[i].Country_code /= Str("XK")},
        ind19 \in {NaN, Num(5, 1)} }

-----------------------------------------------------------------------------
(* DataProcessor.__init__ , one action per statement *)

Init ==
    /\ pc = "start"
    /\ files \in Files
    /\ self_df_countries = None /\ self_regions = None /\ self_population = None
    /\ df_countries = None /\ df_countries_norm = None
    /\ df_regions = None /\ df_regions_norm = None
    /\ self_df_absolute = None /\ self_df_normalized = None
    /\ fn = None /\ arg = None /\ ret = None

\* line 22, import_data (lines 35-46)
ImportData ==
    /\ pc = "start"
    /\ self_df_countries' = files.cases
    /\ self_regions' = files.regions
    /\ self_population' = files.population
    /\ pc' = "imported"
    /\ UNCHANGED <<files, df_countries, df_countries_norm, df_regions, df_regions_norm,
                   self_df_absolute, self_df_normalized, fn, arg, ret>>

\* line 23
PreprocessData ==
    /\ pc = "imported"
    /\ LET r == preprocess_data(self_df_countries, self_regions, self_population)
       IN  /\ self_df_countries' = r.df_countries
           /\ self_population' = r.population
    /\ pc' = "preprocessed"
    /\ UNCHANGED <<files, self_regions, df_countries, df_countries_norm, df_regions,
                   df_regions_norm, self_df_absolute, self_df_normalized, fn, arg, ret>>

\* line 26
CalcStatsCountries ==
    /\ pc = "preprocessed"
    /\ LET r == calc_stats(self_df_countries, "Country")
       IN  /\ self_df_countries' = r.caller
           /\ df_countries' = r.df_covid
           /\ df_countries_norm' = r.df_norm
           /\ pc' = IF r.raised THEN "raised" ELSE "countries_done"
    /\ UNCHANGED <<files, self_regions, self_population, df_regions, df_regions_norm,
                   self_df_absolute, self_df_normalized, fn, arg, ret>>

\* line 28
CreateRegionalDf ==
    /\ pc = "countries_done"
    /\ df_regions' = create_regional_df(self_df_countries)
    /\ pc' = "regions_created"
    /\ UNCHANGED <<files, self_df_countries, self_regions, self_population, df_countries,
                   df_countries_norm, df_regions_norm, self_df_absolute,
                   self_df_normalized, fn, arg, ret>>

\* line 29: on success both locals are rebound; on an exception df_regions
\* still names the table that calc_stats was given
CalcStatsRegions ==
    /\ pc = "regions_created"
    /\ LET r == calc_stats(df_regions, "WHO_region")
       IN  /\ df_regions' = IF r.raised THEN r.caller ELSE r.df_covid
           /\ df_regions_norm' = r.df_norm
           /\ pc' = IF r.raised THEN "raised" ELSE "regions_done"
    /\ UNCHANGED <<files, self_df_countries, self_regions, self_population, df_countries,
                   df_countries_norm, self_df_absolute, self_df_normalized, fn, arg, ret>>

\* line 32
AppendAbsolute ==
    /\ pc = "regions_done"
    /\ self_df_absolute' = append_dataframes(df_countries, df_regions)
    /\ pc' = "absolute_done"
    /\ UNCHANGED <<files, self_df_countries, self_regions, self_population, df_countries,
                   df_countries_norm, df_regions, df_regions_norm, self_df_normalized,
                   fn, arg, ret>>

\* line 33
AppendNormalized ==
    /\ pc = "absolute_done"
    /\ self_df_normalized' = append_dataframes(df_countries_norm, df_regions_norm)
    /\ pc' = "constructed"
    /\ UNCHANGED <<files, self_df_countries, self_regions, self_population, df_countries,
                   df_countries_norm, df_regions, df_regions_norm, self_df_absolute,
                   fn, arg, ret>>

Next ==
    \/ ImportData
    \/ PreprocessData
    \/ CalcStatsCountries
    \/ CreateRegionalDf
    \/ CalcStatsRegions
    \/ AppendAbsolute
    \/ AppendNormalized

Spec == Init /\ [][Next]_vars

-----------------------------------------------------------------------------
(* The methods called on their own: the caller passes arg and then sees ret *)

Counts == {Num(c, 1) : c \in 0..MaxCases}

\* a group as calculate_rt receives it: one entity, 1..MaxLen days
RtGroup(sq) == RangeIndexed(<<"New_cases">>, [i \in DOMAIN sq |-> [New_cases |-> sq[i]]])

\* the worked example of the specification: new_cases = [0, 100, 50]
ExampleGroup == RtGroup(<<Zero, Num(100, 1), Num(50, 1)>>)

RtArgs == {RtGroup(sq) : sq \in SeqsUpTo(Counts, MaxLen)} \cup {ExampleGroup}

\* tables with the two columns calculate_deaths_per_cases reads
DeathsArgs ==
    {RangeIndexed(<<"Cumulative_cases", "Cumulative_deaths">>, sq) :
        sq \in SeqsUpTo([Cumulative_cases : Counts, Cumulative_deaths : Counts], 2)}

stats_columns ==
    <<"Date_reported", "Country_code", "Country", "WHO_region",
      "New_cases", "Cumulative_cases", "New_deaths", "Cumulative_deaths",
      "population", "deaths_per_cases", "Rt">>

\* a row of a table that carries the statistics, as normalize receives it
StatsRow(c, date, nc, cc, nd, cd, pop) ==
    [Date_reported |-> Date(date), Country_code |-> Str(c.code),
     Country |-> Str(c.name), WHO_region |-> Str(c.region),
     New_cases |-> nc, Cumulative_cases |-> cc,
     New_deaths |-> nd, Cumulative_deaths |-> cd,
     population |-> pop, deaths_per_cases |-> Div(cd, cc), Rt |-> Num(1, 2)]

Populations == {Zero, Num(3, 2), Num(POPULATION_NORMALIZER, 1)}

NormalizeArgs ==
    {RangeIndexed(stats_columns, sq) :
        sq \in {s \in SeqsUpTo({StatsRow(c, 1, nc, cc, nd, cd, pop) :
                                   c \in {x \in Catalog : x.region = "EURO"},
                                   nc \in {Zero, Num(MaxCases, 1)},
                                   cc \in {Num(1, 1), Num(MaxCases, 1)},
                                   nd \in {Zero, Num(MaxCases, 1)},
                                   cd \in {Zero, Num(1, 1)},
                                   pop \in Populations}, 2) :
                   \A i, j \in DOMAIN s : i /= j => s[i].Country /= s[j].Country}}

enriched_columns ==
    <<"Date_reported", "Country_code", "Country", "WHO_region",
      "New_cases", "Cumulative_cases", "New_deaths", "Cumulative_deaths", "population">>

\* a row of the enriched country table, as calc_stats receives it
EnrichedRow(c, date, nc) ==
    [Date_reported |-> Date(date), Country_code |-> Str(c.code),
     Country |-> Str(c.name), WHO_region |-> Str(c.region),
     New_cases |-> nc, Cumulative_cases |-> Add(nc, Num(1, 1)),
     New_deaths |-> Zero, Cumulative_deaths |-> Num(1, 1),
     population |-> IF c.code = "CH" THEN Num(POPULATION_NORMALIZER, 1) ELSE Num(3, 1)]

\* enriched country tables of up to MaxRows rows in any row order, and the
\* regional tables made from them
CountryTables ==
    {RangeIndexed(enriched_columns, sq) :
        sq \in {s \in SeqsUpTo({EnrichedRow(c, date, nc) :
                                   c \in {x \in Catalog : x.code \in {"CH", "DE"}},
                                   date \in DOMAIN DateStrings,
                                   nc \in Counts}, MaxRows) : DistinctKeys(s)}}

CalcStatsArgs ==
    {<<df, "Country">> : df \in CountryTables}
    \cup {<<create_regional_df(df), "WHO_region">> : df \in CountryTables}

InitFn ==
    /\ pc = "call"
    /\ \/ fn = "calculate_rt" /\ arg \in RtArgs
       \/ fn = "calculate_deaths_per_cases" /\ arg \in DeathsArgs
       \/ fn = "normalize" /\ arg \in NormalizeArgs
       \/ fn = "calc_stats" /\ arg \in CalcStatsArgs
    /\ ret = None
    /\ files = None
    /\ self_df_countries = None /\ self_regions = None /\ self_population = None
    /\ df_countries = None /\ df_countries_norm = None
    /\ df_regions = None /\ df_regions_norm = None
    /\ self_df_absolute = None /\ self_df_normalized = None

Returned(r) ==
    /\ pc = "call"
    /\ ret' = r
    /\ pc' = "returned"
    /\ UNCHANGED <<files, self_df_countries, self_regions, self_population, df_countries,
                   df_countries_norm, df_regions, df_regions_norm, self_df_absolute,
                   self_df_normalized, fn, arg>>

\* ret: [raised, df_covid] -- df_covid is the caller's table after the call
CallCalculateRt == fn = "calculate_rt" /\ Returned(calculate_rt(arg))

\* ret: [df_covid]
CallDeathsPerCases ==
    fn = "calculate_deaths_per_cases"
    /\ Returned([df_covid |-> calculate_deaths_per_cases(arg)])

\* ret: [df_covid, df_norm]
CallNormalize == fn = "normalize" /\ Returned(normalize(arg))

\* ret: [raised, caller, df_covid, df_norm]
CallCalcStats == fn = "calc_stats" /\ Returned(calc_stats(arg[1], arg[2]))

NextFn == CallCalculateRt \/ CallDeathsPerCases \/ CallNormalize \/ CallCalcStats

SpecFn == InitFn /\ [][NextFn]_vars

-----------------------------------------------------------------------------
(* Properties *)

\* the cell v is the finite float a/b (b > 0)
IsRatio(v, a, b) == IsNum(v) /\ v.n * b = a * v.d

RtCalled == pc = "returned" /\ fn = "calculate_rt"

ArgCases == [i \in DOMAIN arg.rows |-> arg.rows[i].v["New_cases"].n]

RetRt == Col(ret.df_covid, "Rt")

\* C1: for every new_cases sequence, also of length 1, calculate_rt completes
\* and yields an rt sequence of the same length whose values are all defined,
\* finite and >= 0.
C1_CompletesDefined ==
    RtCalled =>
        /\ ~ret.raised
        /\ Len(RetRt) = Len(ArgCases)
        /\ \A i \in DOMAIN RetRt : IsNum(RetRt[i]) /\ RetRt[i].n >= 0

DeathsCalled == pc = "returned" /\ fn = "calculate_deaths_per_cases"

\* C2: after calculate_deaths_per_cases every record has deaths_per_cases
\* defined, finite and >= 0, equal to cumulative_deaths / cumulative_cases when
\* cumulative_cases > 0 and equal to 0 whenever cumulative_cases = 0.
C2_DeathsPerCasesDefined ==
    DeathsCalled =>
        \A i \in DOMAIN ret.df_covid.rows :
            LET r  == ret.df_covid.rows[i].v
                cc == arg.rows[i].v["Cumulative_cases"].n
                cd == arg.rows[i].v["Cumulative_deaths"].n
            IN  /\ IsNum(r["deaths_per_cases"])
                /\ cc > 0 => IsRatio(r["deaths_per_cases"], cd, cc)
                /\ cc = 0 => r["deaths_per_cases"] = Zero

\* C3 as stated: for i > 0 with new_cases[i-1] != 0 the final rt[i] is
\* new_cases[i] / new_cases[i-1]; for i > 0 with new_cases[i-1] = 0 and
\* new_cases[i] != 0 the final rt[i] is the next record's ratio
\* new_cases[i+1] / new_cases[i].
C3_NextRatioAlways ==
    (RtCalled /\ ~ret.raised) =>
        \A i \in 2..Len(ArgCases) :
            /\ ArgCases[i - 1] /= 0 => IsRatio(RetRt[i], ArgCases[i], ArgCases[i - 1])
            /\ (ArgCases[i - 1] = 0 /\ ArgCases[i] /= 0) =>
                   /\ i < Len(ArgCases)
                   /\ IsRatio(RetRt[i], ArgCases[i + 1], ArgCases[i])

\* C3 amended: as above, but an infinite ratio at the last record, which has
\* no next record, ends as 0.
C3_NextRatioOrZero ==
    (RtCalled /\ ~ret.raised) =>
        \A i \in 2..Len(ArgCases) :
            /\ ArgCases[i - 1] /= 0 => IsRatio(RetRt[i], ArgCases[i], ArgCases[i - 1])
            /\ (ArgCases[i - 1] = 0 /\ ArgCases[i] /= 0) =>
                   IF i < Len(ArgCases)
                   THEN IsRatio(RetRt[i], ArgCases[i + 1], ArgCases[i])
                   ELSE RetRt[i] = Zero

\* an infinite ratio in the middle of a sequence was replaced by a nonzero
\* next ratio that differs from the previous record's
C3_Witness ==
    /\ RtCalled /\ ~ret.raised
    /\ \E i \in 3..(Len(ArgCases) - 1) :
           /\ ArgCases[i - 1] = 0 /\ ArgCases[i] /= 0 /\ ArgCases[i + 1] /= 0
           /\ RetRt[i] /= RetRt[i - 1]

CalcCalled == pc = "returned" /\ fn = "calc_stats"

DayOf(df, r) == KeyOf(df, r, "Date_reported").n

\* rows in chronological order
RECURSIVE ByDate(_, _)
ByDate(df, rows) ==
    IF rows = <<>> THEN <<>>
    ELSE LET i == CHOOSE i \in DOMAIN rows :
                      \A j \in DOMAIN rows : DayOf(df, rows[i]) <= DayOf(df, rows[j])
         IN  <<rows[i]>> \o ByDate(df, SelectIdx(rows, LAMBDA j : j /= i))

\* what the ratio calculator gives for entity e's date-sorted records alone
AloneSorted(df, by, e) ==
    LET g == Group(df, <<by>>, <<e>>)
    IN  calculate_rt(Frame(g.index, g.columns, ByDate(g, g.rows))).df_covid

\* C5: in calc_stats the rt of record (entity, date) is the value the ratio
\* calculator gives for that entity's date-sorted new_cases sequence alone,
\* whatever the order of the rows of the input table, and every input row
\* appears in the result.
C5_RtPerEntityByDate ==
    (CalcCalled /\ ~ret.raised) =>
        /\ Len(ret.df_covid.rows) = Len(arg[1].rows)
        /\ \A i \in DOMAIN ret.df_covid.rows :
               LET r == ret.df_covid.rows[i]
                   e == KeyOf(ret.df_covid, r, arg[2])
                   a == AloneSorted(arg[1], arg[2], e)
               IN  \E j \in DOMAIN a.rows :
                       /\ DayOf(a, a.rows[j]) = DayOf(ret.df_covid, r)
                       /\ a.rows[j].v["New_cases"] = r.v["New_cases"]
                       /\ a.rows[j].v["Rt"] = r.v["Rt"]

NormalizeCalled == pc = "returned" /\ fn = "normalize"

\* C7: normalize returns a table with the same rows as its input in which each
\* of the four count fields is value / population * 1,000,000 of the same row
\* (in float arithmetic: inf or NaN for a population of 0) and every other
\* field is the input's; a population of 1,000,000 leaves the counts as they are.
C7_NormalizePerMillion ==
    NormalizeCalled =>
        /\ ret.df_norm.index = arg.index
        /\ ret.df_norm.columns = arg.columns
        /\ Len(ret.df_norm.rows) = Len(arg.rows)
        /\ \A i \in DOMAIN arg.rows :
               LET in  == arg.rows[i]
                   out == ret.df_norm.rows[i]
                   pop == in.v["population"]
               IN  /\ out.ix = in.ix
                   /\ \A c \in Range(arg.columns) \ Range(cols_normalize) : out.v[c] = in.v[c]
                   /\ \A c \in Range(cols_normalize) :
                          /\ pop.n > 0 =>
                                 /\ IsNum(out.v[c])
                                 /\ out.v[c].n * pop.n * in.v[c].d
                                        = in.v[c].n * 1000000 * pop.d * out.v[c].d
                          /\ pop.n = 0 => out.v[c] = (IF in.v[c].n = 0 THEN NaN ELSE Inf)
                          /\ pop = Num(1000000, 1) => out.v[c] = in.v[c]

\* a two-row table was normalized, one row with a population of 1,000,000 and
\* a nonzero count, the other with another population and a changed count
C7_Witness ==
    /\ NormalizeCalled
    /\ Len(arg.rows) = 2
    /\ \E i, j \in DOMAIN arg.rows :
           /\ arg.rows[i].v["population"] = Num(1000000, 1)
           /\ arg.rows[i].v["New_cases"].n > 0
           /\ ret.df_norm.rows[i].v["New_cases"] = arg.rows[i].v["New_cases"]
           /\ arg.rows[j].v["population"].n > 0
           /\ ret.df_norm.rows[j].v["New_cases"] /= arg.rows[j].v["New_cases"]

RECURSIVE Total(_)
Total(cells) == IF cells = <<>> THEN Zero ELSE Add(Head(cells), Total(Tail(cells)))

\* in a combined table the rows that came from the region table have no
\* Country_code
IsRegionRow(r) == r.v["Country_code"].k = "nan"

MembersOf(T, region, date) ==
    SelectSeq(T.rows, LAMBDA r : /\ ~IsRegionRow(r)
                                 /\ r.v["WHO_region"] = region
                                 /\ r.v["Date_reported"] = date)

RegionRowsOf(T, region, date) ==
    SelectSeq(T.rows, LAMBDA r : /\ IsRegionRow(r)
                                 /\ r.v["Country_region"] = region
                                 /\ r.v["Date_reported"] = date)

\* C6: in the absolute combined table there is exactly one region row for
\* every region and date that has country rows, and its New_cases,
\* Cumulative_cases, New_deaths, Cumulative_deaths and population are the sums
\* of the same field over the country rows of that region on that date.
C6_RegionRowsAreSums ==
    pc \in {"absolute_done", "constructed"} =>
        /\ \A i \in DOMAIN self_df_absolute.rows :
               LET r == self_df_absolute.rows[i]
               IN  ~IsRegionRow(r) =>
                       Len(RegionRowsOf(self_df_absolute, r.v["WHO_region"],
                                        r.v["Date_reported"])) = 1
        /\ \A i \in DOMAIN self_df_absolute.rows :
               LET r == self_df_absolute.rows[i]
                   m == MembersOf(self_df_absolute, r.v["Country_region"],
                                  r.v["Date_reported"])
               IN  IsRegionRow(r) =>
                       /\ m /= <<>>
                       /\ \A c \in {"New_cases", "Cumulative_cases", "New_deaths",
                                    "Cumulative_deaths", "population"} :
                              r.v[c] = Total([j \in DOMAIN m |-> m[j].v[c]])

\* a region row that adds up two countries of the region on one date
C6_Witness ==
    /\ pc = "constructed"
    /\ \E i \in DOMAIN self_df_absolute.rows :
           LET r == self_df_absolute.rows[i]
               m == MembersOf(self_df_absolute, r.v["Country_region"],
                              r.v["Date_reported"])
           IN  /\ IsRegionRow(r)
               /\ Len(m) = 2
               /\ r.v["Cumulative_cases"].n > m[1].v["Cumulative_cases"].n
               /\ r.v["population"] /= m[1].v["population"]

\* the mean of the annual figures a line of the population file gives
MeanAvailable(p) ==
    LET ys == SelectSeq(<<p.v["2019 [YR2019]"], p.v["2020 [YR2020]"], p.v["2021 [YR2021]"]>>,
                        LAMBDA y : y.k /= "nan")
    IN  Div(Total(ys), Num(Len(ys), 1))

\* C8: every country record that leaves preprocess_data carries a strictly
\* positive population, the mean of the annual figures available for its
\* country; records of a country without crosswalk or population entry are
\* dropped, and no record is kept with a zero-filled population.
C8_PopulationResolved ==
    pc \notin {"start", "imported"} =>
        \A i \in DOMAIN self_df_countries.rows :
            LET r == self_df_countries.rows[i].v
            IN  /\ IsNum(r["population"]) /\ r["population"].n > 0
                /\ \E x \in Range(files.regions.rows), p \in Range(files.population.rows) :
                       /\ x.v["alpha-2"] = r["Country_code"]
                       /\ p.v["Country Code"] = x.v["alpha-3"]
                       /\ r["population"] = MeanAvailable(p)

OutputTables == {self_df_absolute, self_df_normalized}

ConstructorReturned == pc = "constructed"

\* C11: constructing a DataProcessor loads no data: right after the constructor
\* returns, the three input tables are not read and the absolute and the
\* normalized result table are unset (None).
C11_ConstructorLoadsNoData ==
    ConstructorReturned =>
        /\ self_df_countries = None /\ self_regions = None /\ self_population = None
        /\ self_df_absolute = None
        /\ self_df_normalized = None

====
